---------------------------- MODULE Spec2Model ----------------------------
(***************************************************************************)
(* A model of src/mlb_offense_quality.py: the opponent- and park-adjusted  *)
(* offensive quality ranking of class MLBOffensiveRanking.                 *)
(*                                                                         *)
(* Python's real numbers are modelled exactly, as normalised fractions     *)
(* <<numerator, denominator>> with a positive denominator; a division by   *)
(* zero is the ZeroDivisionError Python raises for it.  The remote         *)
(* statistics API is the variable api, fixed when the behaviour starts.    *)
(***************************************************************************)
EXTENDS Integers, Sequences, FiniteSets, TLC

VARIABLES
    api,               \* what the remote statistics API answers
    smoothing_factor,  \* self.smoothing_factor
    teams_data,        \* self.teams_data: the team ids, in dict order
    pitcher_stats,     \* self.pitcher_stats: team id -> pitching entry
    park_factors,      \* self.park_factors: venue id -> factor
    venue_stats,       \* calculate_park_factors' local venue_stats
    league_avg_runs,   \* calculate_park_factors' local league_avg_runs
    league_ra9,        \* calculate_team_pitching_quality's local league_ra9
    results,           \* run's local results (all_team_results)
    df,                \* run's local df, the ranking table
    pc,                \* the position in run() / main()
    adjusted_lists,    \* calculate_adjusted_offensive_quality's local lists
    tie_order,         \* how the library's sort orders rows of equal key
    run_return,        \* how the last call of run() ended
    runs_done,         \* how many times run() has been called on the instance
    first_run,         \* what the first call of run() produced
    call,              \* the function applied last, with its arguments
    out                \* what that function returned

vars == <<api, smoothing_factor, teams_data, pitcher_stats, park_factors,
          venue_stats, league_avg_runs, league_ra9, results, df, pc,
          adjusted_lists, tie_order, run_return, runs_done, first_run,
          call, out>>

-----------------------------------------------------------------------------
(* Exact arithmetic on fractions.                                          *)

Abs(x) == IF x < 0 THEN -x ELSE x

RECURSIVE GCD(_, _)
GCD(a, b) == IF b = 0 THEN a ELSE GCD(b, a % b)

\* the fraction n/d (d # 0) in lowest terms with a positive denominator
Rat(n, d) ==
    LET g == GCD(Abs(n), Abs(d))
        s == IF d < 0 THEN -1 ELSE 1
    IN  <<(s * n) \div g, (s * d) \div g>>

FromInt(i) == <<i, 1>>

LCM(a, b) == (a \div GCD(a, b)) * b

\* a + b over the least common denominator; 0 is the identity
Add(a, b) ==
    IF a[1] = 0 THEN b
    ELSE IF b[1] = 0 THEN a
    ELSE LET l == LCM(a[2], b[2])
         IN  Rat(a[1] * (l \div a[2]) + b[1] * (l \div b[2]), l)

Neg(a) == <<-a[1], a[2]>>

Sub(a, b) == Add(a, Neg(b))

\* a * b, cross-reduced before the products are taken; 0 absorbs
Mul(a, b) ==
    IF a[1] = 0 \/ b[1] = 0 THEN FromInt(0)
    ELSE LET g1 == GCD(Abs(a[1]), b[2])
             g2 == GCD(Abs(b[1]), a[2])
         IN  Rat((a[1] \div g1) * (b[1] \div g2),
                 (a[2] \div g2) * (b[2] \div g1))

IsZero(a) == a[1] = 0

\* a / b for b # 0; Python raises ZeroDivisionError for b = 0
Div(a, b) == Mul(a, IF b[1] < 0 THEN <<-b[2], -b[1]>> ELSE <<b[2], b[1]>>)

Less(a, b) == Sub(a, b)[1] < 0

LessEq(a, b) == Sub(a, b)[1] <= 0

RMax(a, b) == IF Less(a, b) THEN b ELSE a

RMin(a, b) == IF Less(b, a) THEN b ELSE a

\* s[lo] + ... + s[hi]; exact addition is associative, the halves are
\* added separately
RECURSIVE SumBetween(_, _, _)
SumBetween(s, lo, hi) ==
    IF lo > hi THEN FromInt(0)
    ELSE IF lo = hi THEN s[lo]
    ELSE Add(SumBetween(s, lo, (lo + hi) \div 2),
             SumBetween(s, (lo + hi) \div 2 + 1, hi))

\* sum(s)
SumSeq(s) == SumBetween(s, 1, Len(s))

-----------------------------------------------------------------------------
(* Bounds of the model.                                                    *)

\* the smoothing factors tried by the function-level checks: k / SmoothSteps
SmoothSteps == 10

\* the RA9- values tried by the function-level checks: 0, 10, ..., 10 * MaxRA9Tens
MaxRA9Tens == 25

\* runs allowed tried by the function-level checks: 0..MaxRunsAllowed, and 45
MaxRunsAllowed == 6

\* innings tried by the function-level checks: k/3 for k in 0..MaxInningThirds,
\* and 90
MaxInningThirds == 7

\* league RA9 values tried by the function-level checks: k/2
MaxLeagueHalves == 10

-----------------------------------------------------------------------------
(* smooth_adjustment_factor (the Smoothing Transform).                     *)

None == <<>>

ClampLow == Rat(1, 2)

ClampHigh == Rat(3, 2)

\* a plausible slip: the complement 1 - s forgotten, the deviation scaled by s
smooth_scaled_by_s(ra9_minus) ==
    IF IsZero(smoothing_factor)
    THEN Div(ra9_minus, FromInt(100))
    ELSE LET deviation == Sub(ra9_minus, FromInt(100))
             smoothed_deviation == Mul(deviation, smoothing_factor)
             smoothed_ra9_minus == Add(FromInt(100), smoothed_deviation)
             adjustment_factor == Div(smoothed_ra9_minus, FromInt(100))
         IN  RMax(ClampLow, RMin(ClampHigh, adjustment_factor))

\* a plausible slip: the final max/min clamp left out
smooth_without_clamp(ra9_minus) ==
    IF IsZero(smoothing_factor)
    THEN Div(ra9_minus, FromInt(100))
    ELSE LET deviation == Sub(ra9_minus, FromInt(100))
             smoothed_deviation ==
                 Mul(deviation, Sub(FromInt(1), smoothing_factor))
             smoothed_ra9_minus == Add(FromInt(100), smoothed_deviation)
         IN  Div(smoothed_ra9_minus, FromInt(100))

smooth_adjustment_factor(ra9_minus) ==
    IF IsZero(smoothing_factor)
    THEN \* "No smoothing, return original": returns before the clamp
         Div(ra9_minus, FromInt(100))
    ELSE LET deviation == Sub(ra9_minus, FromInt(100))
             smoothed_deviation ==
                 Mul(deviation, Sub(FromInt(1), smoothing_factor))
             smoothed_ra9_minus == Add(FromInt(100), smoothed_deviation)
             adjustment_factor == Div(smoothed_ra9_minus, FromInt(100))
         IN  RMax(ClampLow, RMin(ClampHigh, adjustment_factor))

-----------------------------------------------------------------------------
(* get_pitcher_ra9_minus (the Pitching Quality Index).                     *)

ZeroDivisionError == "ZeroDivisionError"

\* dict.get(key, default) on a dict modelled as a function
Get(dict, key, default) == IF key \in DOMAIN dict THEN dict[key] ELSE default

DefaultLeagueRA9 == Rat(9, 2)

\* a plausible slip: runs per inning taken for runs per nine innings
ra9_minus_per_inning(pitcher_stats_dict) ==
    IF \/ DOMAIN pitcher_stats_dict = {}
       \/ IsZero(Get(pitcher_stats_dict, "innings_pitched", FromInt(0)))
    THEN FromInt(100)
    ELSE LET runs_allowed == Get(pitcher_stats_dict, "runs_allowed", 0)
             innings_pitched == pitcher_stats_dict["innings_pitched"]
             ra9 == Div(FromInt(runs_allowed), innings_pitched)
             league == Get(pitcher_stats_dict, "league_avg_ra9",
                           DefaultLeagueRA9)
         IN  IF IsZero(league) THEN ZeroDivisionError
             ELSE Mul(Div(ra9, league), FromInt(100))

get_pitcher_ra9_minus(pitcher_stats_dict) ==
    IF \/ DOMAIN pitcher_stats_dict = {}
       \/ IsZero(Get(pitcher_stats_dict, "innings_pitched", FromInt(0)))
    THEN FromInt(100)
    ELSE LET runs_allowed == Get(pitcher_stats_dict, "runs_allowed", 0)
             innings_pitched == pitcher_stats_dict["innings_pitched"]
             ra9 == Mul(Div(FromInt(runs_allowed), innings_pitched),
                        FromInt(9))
             league == Get(pitcher_stats_dict, "league_avg_ra9",
                           DefaultLeagueRA9)
         IN  IF IsZero(league) THEN ZeroDivisionError
             ELSE Mul(Div(ra9, league), FromInt(100))

-----------------------------------------------------------------------------
(* The instance as __init__ leaves it, and the idle harness.               *)

EmptyMap == [x \in {} |-> None]

InitInstance ==
    /\ teams_data = <<>>
    /\ pitcher_stats = EmptyMap
    /\ park_factors = EmptyMap

InitLocals ==
    /\ venue_stats = EmptyMap
    /\ league_avg_runs = None
    /\ league_ra9 = None
    /\ results = <<>>
    /\ df = <<>>
    /\ adjusted_lists = EmptyMap
    /\ run_return = "pending"
    /\ runs_done = 0
    /\ first_run = None

NoApi == [teams_error |-> TRUE]

NoCall == [fn |-> None]

-----------------------------------------------------------------------------
(* The remote API as the fetchers see it.                                  *)
(*   api.teams_error      the /teams request fails                         *)
(*   api.teams            the teams of the answer: [id, sport]             *)
(*   api.schedule_errors  the teams whose /schedule request fails          *)
(*   api.games            the season's games, each                         *)
(*       [game_pk, home, away, venue (0: no venue id), status,             *)
(*        linescore (<<>> or [home, away] runs),                           *)
(*        boxscore (<<>>: the request fails, or per side the batting line  *)
(*                  and the starter's pitchHand code)]                     *)
(*   api.pitching         team id -> [kind: "error"], [kind: "empty"] or   *)
(*                        [kind: "stat", runs, inningsPitched (a str)]     *)

\* fetch_teams: the dict's keys, the teams of sport id 1, in answer order
RECURSIVE MLBTeamIds(_)
MLBTeamIds(teams) ==
    IF teams = <<>> THEN <<>>
    ELSE IF Head(teams).sport = 1
         THEN <<Head(teams).id>> \o MLBTeamIds(Tail(teams))
         ELSE MLBTeamIds(Tail(teams))

\* fetch_schedule: the games of the team's schedule, [] when the fetch fails
IsGameOf(team_id, game) == game.home = team_id \/ game.away = team_id

fetch_schedule(team_id) ==
    IF team_id \in api.schedule_errors THEN <<>>
    ELSE SelectSeq(api.games, LAMBDA game : IsGameOf(team_id, game))

\* get_boxscore: the boxscore of the game, None (<<>>) when the fetch fails
get_boxscore(game) == game.boxscore

-----------------------------------------------------------------------------
(* parse_innings.  A Python value is a record [type, value]; the value of *)
(* a str is its sequence of characters, of a float whole.tenths the pair   *)
(* <<whole, tenths>>.                                                      *)

PyStr(text) == [type |-> "str", value |-> text]

PyInt(n) == [type |-> "int", value |-> n]

PyFloat(whole, tenths) == [type |-> "float", value |-> <<whole, tenths>>]

NoneValue == [type |-> "NoneType", value |-> <<>>]

Digits == <<"0", "1", "2", "3", "4", "5", "6", "7", "8", "9">>

IsDigit(c) == \E i \in 1..10 : Digits[i] = c

DigitValue(c) == (CHOOSE i \in 1..10 : Digits[i] = c) - 1

\* the decimal digits of n >= 0
RECURSIVE TextOfNat(_)
TextOfNat(n) ==
    IF n < 10 THEN <<Digits[n + 1]>>
    ELSE TextOfNat(n \div 10) \o <<Digits[(n % 10) + 1]>>

\* str(x) of an int, and of a float whole.tenths (repr gives "6.0", "6.1")
str(x) ==
    IF x.type = "int"
    THEN IF x.value < 0 THEN <<"-">> \o TextOfNat(-x.value)
         ELSE TextOfNat(x.value)
    ELSE (IF x.value[1] < 0 THEN <<"-">> \o TextOfNat(-x.value[1])
          ELSE TextOfNat(x.value[1]))
         \o <<".">> \o TextOfNat(x.value[2])

\* the text without its leading sign
Unsigned(text) ==
    IF text # <<>> /\ text[1] \in {"+", "-"} THEN Tail(text) ELSE text

\* int(text) succeeds on an optional sign and a non-empty run of digits; so
\* does float(text) on a text without "." (the letters float() knows, as in
\* "inf", "nan" and exponents, are not among the characters modelled)
IsIntText(text) ==
    /\ Unsigned(text) # <<>>
    /\ \A i \in 1..Len(Unsigned(text)) : IsDigit(Unsigned(text)[i])

RECURSIVE IntOfText(_)
IntOfText(text) ==
    IF text = <<>> THEN 0
    ELSE 10 * IntOfText(SubSeq(text, 1, Len(text) - 1))
         + DigitValue(text[Len(text)])

\* int(text) for a text IsIntText accepts
int(text) ==
    IF text[1] = "-" THEN -IntOfText(Tail(text))
    ELSE IntOfText(Unsigned(text))

DotPositions(text) == {i \in 1..Len(text) : text[i] = "."}

\* a plausible slip: the partial read as decimal tenths, not as thirds
ParseTextTenths(text) ==
    IF DotPositions(text) # {}
    THEN IF Cardinality(DotPositions(text)) # 1
         THEN FromInt(0)
         ELSE LET dot == CHOOSE i \in DotPositions(text) : TRUE
                  whole == SubSeq(text, 1, dot - 1)
                  partial == SubSeq(text, dot + 1, Len(text))
              IN  IF IsIntText(whole) /\ IsIntText(partial)
                  THEN Add(FromInt(int(whole)), Rat(int(partial), 10))
                  ELSE FromInt(0)
    ELSE IF IsIntText(text)
         THEN FromInt(int(text))
         ELSE FromInt(0)

\* lines 354-358 inside the try: the text parsed, 0.0 where an exception is
\* caught by line 359
ParseText(text) ==
    IF DotPositions(text) # {}
    THEN IF Cardinality(DotPositions(text)) # 1
         THEN FromInt(0)   \* the unpacking of split('.') raises: 0.0
         ELSE LET dot == CHOOSE i \in DotPositions(text) : TRUE
                  whole == SubSeq(text, 1, dot - 1)
                  partial == SubSeq(text, dot + 1, Len(text))
              IN  IF IsIntText(whole) /\ IsIntText(partial)
                  THEN Add(FromInt(int(whole)), Rat(int(partial), 3))
                  ELSE FromInt(0)   \* int() raises: 0.0
    ELSE IF IsIntText(text)
         THEN FromInt(int(text))
         ELSE FromInt(0)            \* float() raises: 0.0

\* lines 351-352: a number is parsed as its str()
InningsText(innings_str) ==
    IF innings_str.type \in {"int", "float"} THEN str(innings_str)
    ELSE innings_str.value

parse_innings_tenths(innings_str) ==
    IF innings_str.type = "NoneType" THEN FromInt(0)
    ELSE ParseTextTenths(InningsText(innings_str))

parse_innings(innings_str) ==
    IF innings_str.type = "NoneType"
    THEN FromInt(0)    \* '.' in None raises TypeError: 0.0
    ELSE ParseText(InningsText(innings_str))

-----------------------------------------------------------------------------
(* calculate_park_factors.                                                 *)

min_games_threshold == 10

DefaultLeagueRuns == Rat(9, 2)

\* lines 384-397 and 405-406: whether the game, met in team_id's schedule,
\* is added to the totals
\* a plausible slip: the home-team test dropped, the game counted for
\* whichever team's schedule shows it
CountsGameEitherTeam(team_id, game) ==
    /\ game.status = "F"
    /\ game.venue # 0
    /\ game.linescore # <<>>

CountsGame(team_id, game) ==
    /\ game.status = "F"
    /\ game.venue # 0
    /\ game.linescore # <<>>
    /\ game.home = team_id

\* the games one team's schedule adds, in schedule order
CountedIn(team_id) ==
    SelectSeq(fetch_schedule(team_id), LAMBDA game : CountsGame(team_id, game))

\* lines 375-410: the games added while the schedules of all teams are
\* scanned, in dict order
RECURSIVE CountedGames(_)
CountedGames(team_ids) ==
    IF team_ids = <<>> THEN <<>>
    ELSE CountedIn(Head(team_ids)) \o CountedGames(Tail(team_ids))

\* lines 399-401
total_game_runs(game) == game.linescore.home + game.linescore.away

RECURSIVE RunsOfFirst(_, _)
RunsOfFirst(games, n) ==
    IF n = 0 THEN 0
    ELSE total_game_runs(games[n]) + RunsOfFirst(games, n - 1)

\* lines 407-410: what the additions leave in venue_stats and the totals
VenueTotals(counted) ==
    [venue_stats |->
         [v \in {counted[i].venue : i \in 1..Len(counted)} |->
             LET there == SelectSeq(counted, LAMBDA game : game.venue = v)
             IN  [runs |-> RunsOfFirst(there, Len(there)),
                  games |-> Len(there)]],
     total_runs |-> RunsOfFirst(counted, Len(counted)),
     total_games |-> Len(counted)]

\* a plausible slip: the total divided by the number of venues
LeagueAvgRunsPerVenue(acc) ==
    IF acc.total_games > 0
    THEN Rat(acc.total_runs, Cardinality(DOMAIN acc.venue_stats))
    ELSE DefaultLeagueRuns

\* line 413
LeagueAvgRuns(acc) ==
    IF acc.total_games > 0 THEN Rat(acc.total_runs, acc.total_games)
    ELSE DefaultLeagueRuns

\* a plausible slip: > for >=, a venue with exactly 10 games left neutral
ParkFactorStrictThreshold(stats, league_avg) ==
    IF stats.games > min_games_threshold
    THEN Div(Rat(stats.runs, stats.games), league_avg)
    ELSE FromInt(1)

\* lines 421-427, for a league average that is not 0
ParkFactor(stats, league_avg) ==
    IF stats.games >= min_games_threshold
    THEN Div(Rat(stats.runs, stats.games), league_avg)
    ELSE FromInt(1)

\* the whole function: what it raises or leaves in its locals and returns
calculate_park_factors ==
    LET acc == VenueTotals(CountedGames(teams_data))
        league_avg == LeagueAvgRuns(acc)
        divides == {v \in DOMAIN acc.venue_stats :
                        acc.venue_stats[v].games >= min_games_threshold}
        raised == divides # {} /\ IsZero(league_avg)
    IN  [raised |-> raised,
         venue_stats |-> acc.venue_stats,
         league_avg_runs |-> league_avg,
         park_factors |->
             IF raised THEN EmptyMap
             ELSE [v \in DOMAIN acc.venue_stats |->
                      ParkFactor(acc.venue_stats[v], league_avg)]]

-----------------------------------------------------------------------------
(* calculate_team_pitching_quality.                                        *)

NoPitchingTotals ==
    [pitching_stats |-> EmptyMap, total_runs |-> 0, total_innings |-> FromInt(0)]

WithEntry(map, key, value) ==
    [k \in DOMAIN map \cup {key} |-> IF k = key THEN value ELSE map[k]]

\* a plausible slip: a failed fetch aborts nothing but its zero entry is
\* replaced by a league-average-looking one that is also summed
FetchPitchingCountingFailures(team_id, acc) ==
    LET answer == api.pitching[team_id]
    IN  IF answer.kind = "error"
        THEN [pitching_stats |->
                  WithEntry(acc.pitching_stats, team_id,
                            [runs_allowed |-> 1, innings_pitched |-> FromInt(1)]),
              total_runs |-> acc.total_runs + 1,
              total_innings |-> Add(acc.total_innings, FromInt(1))]
        ELSE IF answer.kind = "empty" THEN acc
        ELSE LET runs == answer.runs
                 innings == parse_innings(answer.inningsPitched)
             IN  [pitching_stats |->
                      WithEntry(acc.pitching_stats, team_id,
                                [runs_allowed |-> runs,
                                 innings_pitched |-> innings]),
                  total_runs |-> acc.total_runs + runs,
                  total_innings |-> Add(acc.total_innings, innings)]

\* lines 304-333: one team's season pitching stats fetched and recorded
FetchPitching(team_id, acc) ==
    LET answer == api.pitching[team_id]
    IN  IF answer.kind = "error"
        THEN [acc EXCEPT !.pitching_stats =
                  WithEntry(@, team_id,
                            [runs_allowed |-> 0, innings_pitched |-> FromInt(0)])]
        ELSE IF answer.kind = "empty" THEN acc
        ELSE LET runs == answer.runs
                 innings == parse_innings(answer.inningsPitched)
             IN  [pitching_stats |->
                      WithEntry(acc.pitching_stats, team_id,
                                [runs_allowed |-> runs,
                                 innings_pitched |-> innings]),
                  total_runs |-> acc.total_runs + runs,
                  total_innings |-> Add(acc.total_innings, innings)]

RECURSIVE FetchAllPitching(_, _)
FetchAllPitching(team_ids, acc) ==
    IF team_ids = <<>> THEN acc
    ELSE FetchAllPitching(Tail(team_ids), FetchPitching(Head(team_ids), acc))

\* a plausible slip: the league average taken per inning, the * 9 left out
LeagueRA9PerInning(acc) ==
    IF acc.total_innings[1] > 0
    THEN Div(FromInt(acc.total_runs), acc.total_innings)
    ELSE DefaultLeagueRA9

\* line 336
LeagueRA9(acc) ==
    IF acc.total_innings[1] > 0
    THEN Mul(Div(FromInt(acc.total_runs), acc.total_innings), FromInt(9))
    ELSE DefaultLeagueRA9

\* lines 340-343: the entry with the league average and its RA9-
RatedEntry(stats, league) ==
    LET with_league ==
            [runs_allowed |-> stats.runs_allowed,
             innings_pitched |-> stats.innings_pitched,
             league_avg_ra9 |-> league]
    IN  [runs_allowed |-> stats.runs_allowed,
         innings_pitched |-> stats.innings_pitched,
         league_avg_ra9 |-> league,
         ra9_minus |-> get_pitcher_ra9_minus(with_league)]

calculate_team_pitching_quality ==
    LET acc == FetchAllPitching(teams_data, NoPitchingTotals)
        league == LeagueRA9(acc)
        raised == \E t \in DOMAIN acc.pitching_stats :
                      /\ ~IsZero(acc.pitching_stats[t].innings_pitched)
                      /\ IsZero(league)
    IN  [raised |-> raised,
         league_ra9 |-> league,
         pitcher_stats |->
             IF raised THEN EmptyMap
             ELSE [t \in DOMAIN acc.pitching_stats |->
                      RatedEntry(acc.pitching_stats[t], league)]]

-----------------------------------------------------------------------------
(* calculate_game_score and process_team_games.                            *)

\* self.weights
WeightRuns == Rat(1, 1)

WeightHits == Rat(1, 2)

WeightWalks == Rat(7, 10)

WeightStrikeouts == Rat(-1, 4)

\* a plausible slip: the strikeouts added, their weight's sign lost
game_score_strikeouts_added(runs, hits, walks, strikeouts) ==
    Add(Add(Add(Mul(WeightRuns, FromInt(runs)), Mul(WeightHits, FromInt(hits))),
            Mul(WeightWalks, FromInt(walks))),
        Mul(Neg(WeightStrikeouts), FromInt(strikeouts)))

calculate_game_score(runs, hits, walks, strikeouts) ==
    Add(Add(Add(Mul(WeightRuns, FromInt(runs)), Mul(WeightHits, FromInt(hits))),
            Mul(WeightWalks, FromInt(walks))),
        Mul(WeightStrikeouts, FromInt(strikeouts)))

\* get_starting_pitcher_hand: the pitchHand code of the side's first pitcher
get_starting_pitcher_hand(boxscore, side) == boxscore[side].starter_hand

\* lines 243-291: the record of one completed game with a boxscore
GameRecord(team_id, game) ==
    LET boxscore == get_boxscore(game)
        is_home == game.home = team_id
        team_side == IF is_home THEN "home" ELSE "away"
        opp_side == IF is_home THEN "away" ELSE "home"
        team_stats == boxscore[team_side].batting
    IN  [game_pk |-> game.game_pk,
         opponent_id |-> game[opp_side],
         pitcher_hand |-> get_starting_pitcher_hand(boxscore, opp_side),
         is_home |-> is_home,
         venue_id |-> game.venue,
         runs |-> team_stats.runs,
         hits |-> team_stats.hits,
         walks |-> team_stats.baseOnBalls,
         strikeouts |-> team_stats.strikeOuts,
         game_score |-> calculate_game_score(team_stats.runs, team_stats.hits,
                                             team_stats.baseOnBalls,
                                             team_stats.strikeOuts)]

\* lines 234-241: completed games whose boxscore could be fetched
HasRecord(game) == game.status = "F" /\ get_boxscore(game) # <<>>

GameRecords(team_id, games) ==
    LET kept == SelectSeq(games, HasRecord)
    IN  [i \in 1..Len(kept) |-> GameRecord(team_id, kept[i])]

process_team_games(team_id) == GameRecords(team_id, fetch_schedule(team_id))

-----------------------------------------------------------------------------
(* calculate_adjusted_offensive_quality.                                   *)

\* lines 473-479
OpponentFactor(game) ==
    LET opp_ra9_minus ==
            Get(Get(pitcher_stats, game.opponent_id, EmptyMap), "ra9_minus",
                FromInt(100))
    IN  smooth_adjustment_factor(opp_ra9_minus)

\* lines 482-483
GameParkFactor(game) ==
    IF game.venue_id # 0 THEN Get(park_factors, game.venue_id, FromInt(1))
    ELSE FromInt(1)

\* lines 470-492 and 498, 506: one game adjusted; raised when a divisor is 0
AdjustGame(game) ==
    LET adjustment_factor == OpponentFactor(game)
        park_factor == GameParkFactor(game)
        combined_adjustment == Mul(adjustment_factor, park_factor)
    IN  IF IsZero(combined_adjustment)
        THEN [raised |-> TRUE, game_pk |-> game.game_pk]
        ELSE [raised |-> FALSE,
              game_pk |-> game.game_pk,
              adjusted_score |-> Div(game.game_score, combined_adjustment),
              adjusted_score_no_park |->
                  Div(game.game_score, adjustment_factor),
              pitcher_hand |-> game.pitcher_hand,
              is_home |-> game.is_home]

\* the list [f(x) for x in s], held as a tuple
Map(f(_), s) == SubSeq([i \in 1..Len(s) |-> f(s[i])], 1, Len(s))

WithPark(adjusted) == adjusted.adjusted_score

NoPark(adjusted) == adjusted.adjusted_score_no_park

\* a plausible slip: the home/away lists fed the park-adjusted score too
TeamListsParkEverywhere(adjusted) ==
    [adjusted_scores |-> Map(WithPark, adjusted),
     adjusted_scores_vs_lhp |->
         Map(WithPark, SelectSeq(adjusted, LAMBDA g : g.pitcher_hand = "L")),
     adjusted_scores_vs_rhp |->
         Map(WithPark, SelectSeq(adjusted, LAMBDA g : g.pitcher_hand = "R")),
     adjusted_scores_home |->
         Map(WithPark, SelectSeq(adjusted, LAMBDA g : g.is_home)),
     adjusted_scores_away |->
         Map(WithPark, SelectSeq(adjusted, LAMBDA g : ~g.is_home))]

\* lines 462-466 and 494-510: the lists the loop over the team's games
\* appends to, each in game order
\* a plausible slip: else for elif, every starter who is not left-handed
\* counted as right-handed
TeamListsUnknownAsRight(adjusted) ==
    [adjusted_scores |-> Map(WithPark, adjusted),
     adjusted_scores_vs_lhp |->
         Map(WithPark, SelectSeq(adjusted, LAMBDA g : g.pitcher_hand = "L")),
     adjusted_scores_vs_rhp |->
         Map(WithPark, SelectSeq(adjusted, LAMBDA g : g.pitcher_hand # "L")),
     adjusted_scores_home |->
         Map(NoPark, SelectSeq(adjusted, LAMBDA g : g.is_home)),
     adjusted_scores_away |->
         Map(NoPark, SelectSeq(adjusted, LAMBDA g : ~g.is_home))]

TeamLists(adjusted) ==
    [adjusted_scores |-> Map(WithPark, adjusted),
     adjusted_scores_vs_lhp |->
         Map(WithPark, SelectSeq(adjusted, LAMBDA g : g.pitcher_hand = "L")),
     adjusted_scores_vs_rhp |->
         Map(WithPark, SelectSeq(adjusted, LAMBDA g : g.pitcher_hand = "R")),
     adjusted_scores_home |->
         Map(NoPark, SelectSeq(adjusted, LAMBDA g : g.is_home)),
     adjusted_scores_away |->
         Map(NoPark, SelectSeq(adjusted, LAMBDA g : ~g.is_home))]

GameScoreOf(game) == game.game_score

\* sum(xs) / len(xs) if xs else 0
Average(xs) ==
    IF xs = <<>> THEN FromInt(0) ELSE Div(SumSeq(xs), FromInt(Len(xs)))

RECURSIVE SumFieldOfFirst(_, _, _)
SumFieldOfFirst(games, field, n) ==
    IF n = 0 THEN 0 ELSE games[n][field] + SumFieldOfFirst(games, field, n - 1)

SumField(games, field) == SumFieldOfFirst(games, field, Len(games))

\* lines 513-556: the team's summary
TeamSummary(team_id, games, lists) ==
    LET games_played == Len(games)
        total_game_score == SumSeq(Map(GameScoreOf, games))
    IN  [team_id |-> team_id,
         team_name |-> team_id,
         games_played |-> games_played,
         avg_game_score |-> Div(total_game_score, FromInt(games_played)),
         avg_adjusted_score |->
             Div(SumSeq(lists.adjusted_scores), FromInt(games_played)),
         avg_adj_vs_lhp |-> Average(lists.adjusted_scores_vs_lhp),
         avg_adj_vs_rhp |-> Average(lists.adjusted_scores_vs_rhp),
         games_vs_lhp |-> Len(lists.adjusted_scores_vs_lhp),
         games_vs_rhp |-> Len(lists.adjusted_scores_vs_rhp),
         avg_adj_home |-> Average(lists.adjusted_scores_home),
         avg_adj_away |-> Average(lists.adjusted_scores_away),
         games_home |-> Len(lists.adjusted_scores_home),
         games_away |-> Len(lists.adjusted_scores_away),
         total_runs |-> SumField(games, "runs"),
         avg_runs |-> Rat(SumField(games, "runs"), games_played),
         total_hits |-> SumField(games, "hits"),
         total_walks |-> SumField(games, "walks"),
         total_strikeouts |-> SumField(games, "strikeouts")]

\* lines 513-556: the entry of a team whose games were all adjusted
Summarised(team_id, games, lists) ==
    [team_id |-> team_id, skipped |-> FALSE, raised |-> FALSE,
     lists |-> lists,
     summary |-> TeamSummary(team_id, games, lists)]

\* lines 459-510: the loop over the team's games: the team is skipped
\* without games, the loop raises when a game's divisor is 0
AdjustedTeam(team_id, games, adjusted) ==
    IF games = <<>>
    THEN [team_id |-> team_id, skipped |-> TRUE, raised |-> FALSE]
    ELSE IF \E i \in 1..Len(adjusted) : adjusted[i].raised
    THEN [team_id |-> team_id, skipped |-> FALSE, raised |-> TRUE]
    ELSE Summarised(team_id, games, TeamLists(adjusted))

AdjustTeamGames(team_id, games) ==
    AdjustedTeam(team_id, games, Map(AdjustGame, games))

\* lines 455-556: one team of the loop over self.teams_data
TeamResult(team_id) == AdjustTeamGames(team_id, process_team_games(team_id))

SummaryOf(team_result) == team_result.summary

\* what the loop over the teams leaves: nothing when a team's loop raised,
\* else the lists by team and all_team_results
Collected(played, raised) ==
    [raised |-> raised,
     lists |->
         IF raised THEN EmptyMap
         ELSE [t \in {played[i].team_id : i \in 1..Len(played)} |->
                  (CHOOSE r \in {played[i] : i \in 1..Len(played)} :
                       r.team_id = t).lists],
     results |-> IF raised THEN <<>> ELSE Map(SummaryOf, played)]

CollectPlayed(played) ==
    Collected(played, \E i \in 1..Len(played) : played[i].raised)

\* the whole function: what it raises, or the lists and the results it builds
calculate_adjusted_offensive_quality ==
    CollectPlayed(SelectSeq(Map(TeamResult, teams_data),
                            LAMBDA r : ~r.skipped))

-----------------------------------------------------------------------------
(* generate_rankings.                                                      *)

\* sort_values(..., ascending=False) uses kind='quicksort', which is not a
\* stable sort: rows of equal key come out in the library's order, modelled
\* as the fixed priority tie_order of the team ids.
TiePosition(team_id) == CHOOSE i \in 1..Len(tie_order) : tie_order[i] = team_id

\* a plausible slip: the sort left ascending
ComesFirstAscending(a, b, field) ==
    \/ Less(a[field], b[field])
    \/ a[field] = b[field] /\ TiePosition(a.team_id) <= TiePosition(b.team_id)

\* row a is placed no later than row b by the descending sort on field
ComesFirst(a, b, field) ==
    \/ Less(b[field], a[field])
    \/ a[field] = b[field] /\ TiePosition(a.team_id) <= TiePosition(b.team_id)

RECURSIVE SortDescending(_, _)
SortDescending(rows, field) ==
    IF rows = <<>> THEN <<>>
    ELSE LET first == CHOOSE i \in 1..Len(rows) :
                          \A j \in 1..Len(rows) :
                              ComesFirst(rows[i], rows[j], field)
             rest == [k \in 1..(Len(rows) - 1) |->
                         IF k < first THEN rows[k] ELSE rows[k + 1]]
         IN  <<rows[first]>> \o SortDescending(rest, field)

\* df[df[count] > 0], sorted by the average, ranked 1..k: [team_id, rank]
SplitRanks(frame, count_field, avg_field) ==
    LET kept == SelectSeq(frame, LAMBDA row : row[count_field] > 0)
        sorted == SortDescending(kept, avg_field)
    IN  [i \in 1..Len(sorted) |-> [team_id |-> sorted[i].team_id, rank |-> i]]

\* the left merge on team_id and fillna(0): the team's rank, 0 if it has none
MergedRank(ranks, team_id) ==
    IF \E i \in 1..Len(ranks) : ranks[i].team_id = team_id
    THEN (CHOOSE i \in 1..Len(ranks) : ranks[i].team_id = team_id)
    ELSE 0

\* df.sort_values('rank')
RECURSIVE SortByRank(_)
SortByRank(rows) ==
    IF rows = <<>> THEN <<>>
    ELSE LET first == CHOOSE i \in 1..Len(rows) :
                          \A j \in 1..Len(rows) :
                              \/ rows[i].rank < rows[j].rank
                              \/ rows[i].rank = rows[j].rank /\ i <= j
             rest == [k \in 1..(Len(rows) - 1) |->
                         IF k < first THEN rows[k] ELSE rows[k + 1]]
         IN  <<rows[first]>> \o SortByRank(rest)

\* the row of the table: display_columns
DisplayRow(row, rank, lhp, rhp, home, away) ==
    [rank |-> rank,
     team_name |-> row.team_name,
     games_played |-> row.games_played,
     avg_adjusted_score |-> row.avg_adjusted_score,
     rank_vs_lhp |-> lhp,
     avg_adj_vs_lhp |-> row.avg_adj_vs_lhp,
     games_vs_lhp |-> row.games_vs_lhp,
     rank_vs_rhp |-> rhp,
     avg_adj_vs_rhp |-> row.avg_adj_vs_rhp,
     games_vs_rhp |-> row.games_vs_rhp,
     rank_home |-> home,
     avg_adj_home |-> row.avg_adj_home,
     games_home |-> row.games_home,
     rank_away |-> away,
     avg_adj_away |-> row.avg_adj_away,
     games_away |-> row.games_away,
     avg_game_score |-> row.avg_game_score,
     avg_runs |-> row.avg_runs,
     total_runs |-> row.total_runs,
     total_hits |-> row.total_hits,
     total_walks |-> row.total_walks,
     total_strikeouts |-> row.total_strikeouts]

generate_rankings(rows) ==
    LET frame == SortDescending(rows, "avg_adjusted_score")
        df_lhp == SplitRanks(frame, "games_vs_lhp", "avg_adj_vs_lhp")
        df_rhp == SplitRanks(frame, "games_vs_rhp", "avg_adj_vs_rhp")
        df_home == SplitRanks(frame, "games_home", "avg_adj_home")
        df_away == SplitRanks(frame, "games_away", "avg_adj_away")
        merged == [i \in 1..Len(frame) |->
                      DisplayRow(frame[i], i,
                                 MergedRank(df_lhp, frame[i].team_id),
                                 MergedRank(df_rhp, frame[i].team_id),
                                 MergedRank(df_home, frame[i].team_id),
                                 MergedRank(df_away, frame[i].team_id))]
    IN  SortByRank(merged)

-----------------------------------------------------------------------------
(* run() and main().                                                       *)

\* how many times run() is called on the one instance
MaxRuns == 2

\* a plausible slip: the fetched teams added to those the instance holds
fetched_teams_accumulated == teams_data \o MLBTeamIds(api.teams)

\* lines 60-67: the dict fetch_teams assigns to self.teams_data
fetched_teams == MLBTeamIds(api.teams)

\* main(), lines 753-772: the exit code for the way run() ended
main_exit_code(returned) == IF returned = "df" THEN 0 ELSE 1

\* run() is entered: its locals are fresh, the instance is as it was left
CallRun ==
    /\ pc \in {"constructed", "returned"}
    /\ runs_done < MaxRuns
    /\ runs_done' = runs_done + 1
    /\ first_run' = IF runs_done = 1
                    THEN [run_return |-> run_return, df |-> df]
                    ELSE first_run
    /\ pc' = "fetch_teams"
    /\ run_return' = "pending"
    /\ venue_stats' = EmptyMap
    /\ league_avg_runs' = None
    /\ league_ra9' = None
    /\ results' = <<>>
    /\ df' = <<>>
    /\ adjusted_lists' = EmptyMap
    /\ UNCHANGED <<api, smoothing_factor, teams_data, pitcher_stats,
                   park_factors, tie_order, call, out>>

\* Step 1, lines 661-663
FetchTeams ==
    /\ pc = "fetch_teams"
    /\ IF api.teams_error
       THEN /\ run_return' = "None"
            /\ pc' = "returned"
            /\ UNCHANGED teams_data
       ELSE /\ teams_data' = fetched_teams
            /\ pc' = "calculate_park_factors"
            /\ UNCHANGED run_return
    /\ UNCHANGED <<api, smoothing_factor, pitcher_stats, park_factors,
                   venue_stats, league_avg_runs, league_ra9, results, df,
                   adjusted_lists, tie_order, runs_done, first_run, call, out>>

\* Step 2, line 666
CalculateParkFactors ==
    /\ pc = "calculate_park_factors"
    /\ LET r == calculate_park_factors
       IN  /\ venue_stats' = r.venue_stats
           /\ league_avg_runs' = r.league_avg_runs
           /\ IF r.raised
              THEN /\ run_return' = ZeroDivisionError
                   /\ pc' = "returned"
                   /\ UNCHANGED park_factors
              ELSE /\ park_factors' = r.park_factors
                   /\ pc' = "calculate_team_pitching_quality"
                   /\ UNCHANGED run_return
    /\ UNCHANGED <<api, smoothing_factor, teams_data, pitcher_stats,
                   league_ra9, results, df, adjusted_lists, tie_order,
                   runs_done, first_run, call, out>>

\* a plausible slip: the pitching qualities computed but not stored in
\* self.pitcher_stats before the games are adjusted
PitchingQualityNotStored ==
    /\ pc = "calculate_team_pitching_quality"
    /\ LET r == calculate_team_pitching_quality
       IN  /\ league_ra9' = r.league_ra9
           /\ IF r.raised
              THEN /\ run_return' = ZeroDivisionError
                   /\ pc' = "returned"
              ELSE /\ pc' = "calculate_adjusted_offensive_quality"
                   /\ UNCHANGED run_return
    /\ UNCHANGED <<api, smoothing_factor, teams_data, park_factors,
                   pitcher_stats, venue_stats, league_avg_runs, results, df,
                   adjusted_lists, tie_order, runs_done, first_run, call, out>>

\* Step 3, line 669
CalculateTeamPitchingQuality ==
    /\ pc = "calculate_team_pitching_quality"
    /\ LET r == calculate_team_pitching_quality
       IN  /\ league_ra9' = r.league_ra9
           /\ IF r.raised
              THEN /\ run_return' = ZeroDivisionError
                   /\ pc' = "returned"
                   /\ UNCHANGED pitcher_stats
              ELSE /\ pitcher_stats' = r.pitcher_stats
                   /\ pc' = "calculate_adjusted_offensive_quality"
                   /\ UNCHANGED run_return
    /\ UNCHANGED <<api, smoothing_factor, teams_data, park_factors,
                   venue_stats, league_avg_runs, results, df, adjusted_lists,
                   tie_order, runs_done, first_run, call, out>>

\* lines 672-676: run() keeps the results, returns None when there are none
ReturnAdjusted(r) ==
    IF r.raised
    THEN /\ run_return' = ZeroDivisionError
         /\ pc' = "returned"
         /\ UNCHANGED <<results, adjusted_lists>>
    ELSE /\ results' = r.results
         /\ adjusted_lists' = r.lists
         /\ IF r.results = <<>>
            THEN run_return' = "None" /\ pc' = "returned"
            ELSE pc' = "generate_rankings" /\ UNCHANGED run_return

\* Step 4, lines 672-676
CalculateAdjustedOffensiveQuality ==
    /\ pc = "calculate_adjusted_offensive_quality"
    /\ ReturnAdjusted(calculate_adjusted_offensive_quality)
    /\ UNCHANGED <<api, smoothing_factor, teams_data, pitcher_stats,
                   park_factors, venue_stats, league_avg_runs, league_ra9, df,
                   tie_order, runs_done, first_run, call, out>>

\* lines 679-718: the table is built and returned
GenerateRankings ==
    /\ pc = "generate_rankings"
    /\ df' = generate_rankings(results)
    /\ run_return' = "df"
    /\ pc' = "returned"
    /\ UNCHANGED <<api, smoothing_factor, teams_data, pitcher_stats,
                   park_factors, venue_stats, league_avg_runs, league_ra9,
                   results, adjusted_lists, tie_order, runs_done, first_run,
                   call, out>>

Next ==
    \/ CallRun
    \/ FetchTeams
    \/ CalculateParkFactors
    \/ CalculateTeamPitchingQuality
    \/ CalculateAdjustedOffensiveQuality
    \/ GenerateRankings

-----------------------------------------------------------------------------
(* Spec: run() on the seasons the API may hold.                            *)

\* a venue's games are tried at 0, min_games_threshold - 1 and from
\* min_games_threshold to min_games_threshold + ExtraGames
ExtraGames == 0

GameCounts ==
    {0, min_games_threshold - 1}
    \cup (min_games_threshold..(min_games_threshold + ExtraGames))

\* the batting lines give whole game scores (hits even, walks 0 or 10,
\* strikeouts in fours), which keeps the exact fractions of a season's sums
\* within the integers of the checker

Batting(r, h, bb, so) ==
    [runs |-> r, hits |-> h, baseOnBalls |-> bb, strikeOuts |-> so]

\* team 1 hosts team 2 at venue 10
HomeStand ==
    [home |-> 1, away |-> 2, venue |-> 10, status |-> "F",
     linescore |-> [home |-> 3, away |-> 2],
     boxscore |-> [home |-> [batting |-> Batting(3, 6, 0, 4),
                             starter_hand |-> "R"],
                   away |-> [batting |-> Batting(2, 4, 0, 8),
                             starter_hand |-> "L"]]]

\* team 2 hosts team 1 at venue 20 and wins 1:0, or (blank) the linescore
\* shows no runs at all
Pitchers(blank) ==
    LET r == IF blank THEN 0 ELSE 1
    IN  [home |-> 2, away |-> 1, venue |-> 20, status |-> "F",
         linescore |-> [home |-> r, away |-> 0],
         boxscore |-> [home |-> [batting |-> Batting(r, 2, 0, 8),
                                 starter_hand |-> "Unknown"],
                       away |-> [batting |-> Batting(0, 4, 0, 4),
                                 starter_hand |-> "R"]]]

\* the odd games: no venue id, not final, no linescore, no boxscore
OddGames ==
    << [home |-> 1, away |-> 3, venue |-> 0, status |-> "F",
        linescore |-> [home |-> 1, away |-> 4],
        boxscore |-> [home |-> [batting |-> Batting(1, 4, 0, 4),
                                starter_hand |-> "L"],
                      away |-> [batting |-> Batting(4, 8, 0, 4),
                                starter_hand |-> "S"]]],
       [home |-> 2, away |-> 1, venue |-> 20, status |-> "I",
        linescore |-> <<>>, boxscore |-> <<>>],
       [home |-> 3, away |-> 2, venue |-> 30, status |-> "F",
        linescore |-> <<>>,
        boxscore |-> [home |-> [batting |-> Batting(6, 8, 10, 4),
                                starter_hand |-> "R"],
                      away |-> [batting |-> Batting(1, 2, 0, 8),
                                starter_hand |-> "L"]]],
       [home |-> 1, away |-> 2, venue |-> 10, status |-> "F",
        linescore |-> [home |-> 5, away |-> 1], boxscore |-> <<>>] >>

Copies(game, n) == [i \in 1..n |-> game]

\* the games of a season, numbered by gamePk
Season(home_stands, duels, blank, odd) ==
    LET games == Copies(HomeStand, home_stands)
                 \o Copies(Pitchers(blank), duels)
                 \o (IF odd THEN OddGames ELSE <<>>)
    IN  [i \in 1..Len(games) |->
            [game_pk |-> i, home |-> games[i].home, away |-> games[i].away,
             venue |-> games[i].venue, status |-> games[i].status,
             linescore |-> games[i].linescore,
             boxscore |-> games[i].boxscore]]

Seasons ==
    {Season(a, b, blank, odd) :
        a \in GameCounts, b \in GameCounts, blank \in BOOLEAN,
        odd \in BOOLEAN}

TeamIds == {1, 2, 3}

MLB(id) == [id |-> id, sport |-> 1]

\* the /teams answers: team 3 listed for another sport, or all three MLB
TeamAnswers ==
    { <<MLB(1), MLB(2), [id |-> 3, sport |-> 11]>>,
      <<MLB(1), MLB(2), MLB(3)>> }

Stat(runs, innings) ==
    [kind |-> "stat", runs |-> runs, inningsPitched |-> PyStr(innings)]

Failed == [kind |-> "error"]

NoStats == [kind |-> "empty"]

\* three staffs with an RA9- of 100, 125 and 75
RatedStaffs ==
    <<Stat(4, <<"9", ".", "0">>), Stat(5, <<"9">>), Stat(3, <<"9", ".", "0">>)>>

\* the season pitching stats of teams 1, 2, 3
PitchingAnswers ==
    { RatedStaffs,
      <<Stat(0, <<"9", ".", "0">>), Stat(9, <<"9", ".", "0">>), NoStats>>,
      <<Failed, Stat(4, <<"9", ".", "2">>), Stat(2, <<"a", "b", "c">>)>>,
      <<Stat(0, <<"9", ".", "0">>), Stat(0, <<"3", ".", "0">>), Failed>>,
      <<Failed, Failed, NoStats>> }

PipelineSmoothing == {FromInt(0), Rat(3, 10), FromInt(1)}

\* the API answers with teams: every season, with the schedule of team 2
\* failing in some
InitSeason ==
    \E teams \in TeamAnswers, schedule_errors \in {{}, {2}}, games \in Seasons,
       pitching \in PitchingAnswers :
        /\ schedule_errors # {} => teams[3].sport = 1
        /\ api = [teams_error |-> FALSE, teams |-> teams,
                  schedule_errors |-> schedule_errors, games |-> games,
                  pitching |-> pitching]

\* the /teams request fails, or answers with no team
InitNoTeams ==
    \E teams_error \in BOOLEAN, pitching \in PitchingAnswers :
        api = [teams_error |-> teams_error, teams |-> <<>>,
               schedule_errors |-> {}, games |-> Season(1, 1, FALSE, TRUE),
               pitching |-> pitching]

Init ==
    /\ InitInstance
    /\ InitLocals
    /\ InitSeason \/ InitNoTeams
    /\ smoothing_factor \in PipelineSmoothing
    /\ smoothing_factor = FromInt(1) => api.pitching = RatedStaffs
    /\ tie_order = <<1, 2, 3>>
    /\ pc = "constructed"
    /\ call = NoCall
    /\ out = None

Spec == Init /\ [][Next]_vars

-----------------------------------------------------------------------------
(* Properties of run() under Spec.                                         *)

\* the opponent_factor of a game record, from the stored pitching entries
FactorOf(game) ==
    smooth_adjustment_factor(
        IF game.opponent_id \in DOMAIN pitcher_stats
        THEN pitcher_stats[game.opponent_id].ra9_minus
        ELSE FromInt(100))

\* the park_factor of a game record, from the stored park factors
ParkOf(game) ==
    IF game.venue_id \in DOMAIN park_factors
    THEN park_factors[game.venue_id]
    ELSE FromInt(1)

\* x = numerator / divisor, for a divisor that is not 0
IsQuotient(x, numerator, divisor) ==
    ~IsZero(divisor) /\ Mul(x, divisor) = numerator

IsWithPark(x, game) ==
    IsQuotient(x, game.game_score, Mul(FactorOf(game), ParkOf(game)))

IsNoPark(x, game) == IsQuotient(x, game.game_score, FactorOf(game))

\* the positions of the games in the split, in game order
Positions(games, InSplit(_)) ==
    SelectSeq([i \in 1..Len(games) |-> i], LAMBDA i : InSplit(games[i]))

\* list holds one with-park value per game of the split, in game order
HoldsWithPark(list, games, at) ==
    /\ Len(list) = Len(at)
    /\ \A k \in 1..Len(at) : IsWithPark(list[k], games[at[k]])

\* list holds one no-park value per game of the split, in game order
HoldsNoPark(list, games, at) ==
    /\ Len(list) = Len(at)
    /\ \A k \in 1..Len(at) : IsNoPark(list[k], games[at[k]])

VsLeft(game) == game.pitcher_hand = "L"

VsRight(game) == game.pitcher_hand = "R"

AtHome(game) == game.is_home

Away(game) == ~game.is_home

AnyGame(game) == TRUE

ListsAsSpecified(lists, games) ==
    /\ HoldsWithPark(lists.adjusted_scores, games, Positions(games, AnyGame))
    /\ HoldsWithPark(lists.adjusted_scores_vs_lhp, games,
                     Positions(games, VsLeft))
    /\ HoldsWithPark(lists.adjusted_scores_vs_rhp, games,
                     Positions(games, VsRight))
    /\ HoldsNoPark(lists.adjusted_scores_home, games, Positions(games, AtHome))
    /\ HoldsNoPark(lists.adjusted_scores_away, games, Positions(games, Away))

ResultOf(team_id) ==
    CHOOSE row \in {results[i] : i \in 1..Len(results)} : row.team_id = team_id

AveragesAsSpecified(row, lists) ==
    /\ row.avg_adjusted_score = Average(lists.adjusted_scores)
    /\ row.avg_adj_vs_lhp = Average(lists.adjusted_scores_vs_lhp)
    /\ row.avg_adj_vs_rhp = Average(lists.adjusted_scores_vs_rhp)
    /\ row.avg_adj_home = Average(lists.adjusted_scores_home)
    /\ row.avg_adj_away = Average(lists.adjusted_scores_away)

\* C3: for every game record adjusted_score = game_score / (opponent_factor *
\* park_factor) and adjusted_score_no_park = game_score / opponent_factor,
\* the opponent_factor being the smoothed factor of the opponent's RA9- (100
\* without a pitching entry); the overall list and the vs-LHP / vs-RHP lists
\* hold the with-park values only, the home and away lists the no-park values
\* only, and the averages of the result are the averages of these lists.
C3_AdjustedScores ==
    \A t \in DOMAIN adjusted_lists :
        /\ ListsAsSpecified(adjusted_lists[t], process_team_games(t))
        /\ AveragesAsSpecified(ResultOf(t), adjusted_lists[t])

\* C3's case: a run adjusted a home game at a venue whose park factor is not
\* 1, so that the team's overall and home lists differ.
C3_Witness ==
    /\ run_return = "df"
    /\ 1 \in DOMAIN adjusted_lists
    /\ 10 \in DOMAIN park_factors
    /\ park_factors[10] # FromInt(1)
    /\ adjusted_lists[1].adjusted_scores_home # <<>>
    /\ adjusted_lists[1].adjusted_scores_vs_lhp # <<>>
    /\ adjusted_lists[1].adjusted_scores_home[1]
           # adjusted_lists[1].adjusted_scores[1]

\* C4 as stated: for every smoothing factor in [0,1] and any pitching
\* totals, venue totals and game records, every division of the pipeline has
\* a divisor that is not 0: the run never ends with an exception.
C4_NeverRaises == run_return # ZeroDivisionError

\* the run got past calculate_park_factors: self.park_factors is this run's
ParkFactorsStored ==
    pc = "calculate_team_pitching_quality" \/ league_ra9 # None

UnknownVenue(game) ==
    game.venue_id = 0 \/ game.venue_id \notin DOMAIN park_factors

\* the games of an unknown venue were adjusted with the park factor 1.0
NeutralWhereUnknown(adjusted_scores, games) ==
    \A i \in 1..Len(games) :
        UnknownVenue(games[i]) => IsNoPark(adjusted_scores[i], games[i])

\* C6: the park factor of a venue is (total_runs / game_count) /
\* league_avg_runs_per_game, unclamped, exactly when the venue has at least
\* 10 games, and 1.0 when it has fewer; a game whose venue is unknown or has
\* no entry is adjusted with the park factor 1.0 (10 games with 100 runs
\* against a league average of 5.0 give 2.0).
C6_ParkFactor ==
    /\ ParkFactor([runs |-> 100, games |-> 10], FromInt(5)) = FromInt(2)
    /\ ParkFactorsStored =>
           /\ DOMAIN park_factors = DOMAIN venue_stats
           /\ \A v \in DOMAIN venue_stats :
                  IF venue_stats[v].games >= 10
                  THEN venue_stats[v].runs * park_factors[v][2]
                           * league_avg_runs[2]
                       = park_factors[v][1] * league_avg_runs[1]
                           * venue_stats[v].games
                  ELSE park_factors[v] = <<1, 1>>
           /\ \A t \in DOMAIN adjusted_lists :
                  NeutralWhereUnknown(adjusted_lists[t].adjusted_scores,
                                      process_team_games(t))

\* C6's case: a run in which one venue has exactly 10 games and a factor
\* other than 1, another has 9 games with runs and the factor 1, and games
\* without a venue id or without an entry were adjusted.
C6_Witness ==
    /\ run_return = "df"
    /\ \E v \in DOMAIN venue_stats :
           venue_stats[v].games = 10 /\ park_factors[v] # <<1, 1>>
    /\ \E v \in DOMAIN venue_stats :
           /\ venue_stats[v].games = 9
           /\ venue_stats[v].runs > 0
           /\ park_factors[v] = <<1, 1>>
    /\ \E t \in DOMAIN adjusted_lists :
           \E i \in 1..Len(process_team_games(t)) :
               process_team_games(t)[i].venue_id = 0
    /\ \E t \in DOMAIN adjusted_lists :
           \E i \in 1..Len(process_team_games(t)) :
               /\ process_team_games(t)[i].venue_id # 0
               /\ process_team_games(t)[i].venue_id \notin DOMAIN park_factors

\* the season pitching totals the API answers for the first n teams
RECURSIVE AnsweredRuns(_)
AnsweredRuns(n) ==
    IF n = 0 THEN 0
    ELSE AnsweredRuns(n - 1)
         + (IF api.pitching[teams_data[n]].kind = "stat"
            THEN api.pitching[teams_data[n]].runs ELSE 0)

RECURSIVE AnsweredInnings(_)
AnsweredInnings(n) ==
    IF n = 0 THEN FromInt(0)
    ELSE Add(AnsweredInnings(n - 1),
             IF api.pitching[teams_data[n]].kind = "stat"
             THEN parse_innings(api.pitching[teams_data[n]].inningsPitched)
             ELSE FromInt(0))

RECURSIVE VenueSum(_, _)
VenueSum(venues, field) ==
    IF venues = {} THEN 0
    ELSE venue_stats[CHOOSE v \in venues : TRUE][field]
         + VenueSum(venues \ {CHOOSE v \in venues : TRUE}, field)

\* league = (runs / innings) * 9 for the fraction innings > 0, else 4.5
IsLeagueRA9(league, runs, innings) ==
    IF innings[1] > 0
    THEN league[1] * innings[1] = league[2] * 9 * runs * innings[2]
    ELSE league = <<9, 2>>

\* league = runs / games for games > 0, else 4.5
IsLeagueRuns(league, runs, games) ==
    IF games > 0 THEN league[1] * games = league[2] * runs
    ELSE league = <<9, 2>>

\* C7: league_avg_ra9 is (sum of runs_allowed / sum of innings_pitched) * 9
\* over all teams when the innings sum is > 0 and 4.5 otherwise;
\* league_avg_runs_per_game is the sum of total_runs over the sum of
\* game_count over all venues when that sum is > 0 and 4.5 otherwise.
C7_LeagueAverages ==
    /\ league_ra9 # None =>
           IsLeagueRA9(league_ra9, AnsweredRuns(Len(teams_data)),
                       AnsweredInnings(Len(teams_data)))
    /\ league_avg_runs # None =>
           IsLeagueRuns(league_avg_runs,
                        VenueSum(DOMAIN venue_stats, "runs"),
                        VenueSum(DOMAIN venue_stats, "games"))
    /\ pc \in {"calculate_adjusted_offensive_quality", "generate_rankings"} =>
           \A t \in DOMAIN pitcher_stats :
               pitcher_stats[t].league_avg_ra9 = league_ra9

\* C7's cases: both averages computed from totals and different from 4.5
\* (13 runs in 27 2/3 innings, a failed fetch counting for nothing), or both
\* at their 4.5 default for want of innings and of games.
C7_Witness ==
    /\ league_ra9 # None
    /\ league_avg_runs # None
    /\ \/ /\ AnsweredInnings(Len(teams_data))[1] > 0
          /\ league_ra9 \notin {<<9, 2>>, <<0, 1>>}
          /\ Cardinality(DOMAIN venue_stats) = 2
          /\ league_avg_runs \notin {<<9, 2>>, <<0, 1>>}
       \/ /\ teams_data # <<>>
          /\ AnsweredInnings(Len(teams_data)) = <<0, 1>>
          /\ league_ra9 = <<9, 2>>
          /\ DOMAIN venue_stats = {}
          /\ league_avg_runs = <<9, 2>>

\* no team of the fetched list has a completed game with a boxscore
NoGameRecord ==
    \A i \in 1..Len(fetched_teams) :
        process_team_games(fetched_teams[i]) = <<>>

\* C9 as stated: run() returns None (main exits non-zero) if and only if the
\* team list could not be fetched or no team has a completed game record; in
\* every other run it returns a table of at least one row; generate_rankings
\* is never handed an empty result list.
C9_NoResultsOrTable ==
    /\ pc = "generate_rankings" => results # <<>>
    /\ pc = "returned" =>
           /\ run_return = "None" <=> (api.teams_error \/ NoGameRecord)
           /\ run_return = "None" => main_exit_code(run_return) # 0
           /\ run_return # "None" => run_return = "df" /\ Len(df) >= 1

\* C10: running run() again on the same instance, the API answering the same
\* data, returns the same table: what the first run left in teams_data,
\* pitcher_stats and park_factors has no influence on the later run.
C10_SecondRunSameTable ==
    (pc = "returned" /\ runs_done >= 2) =>
        /\ run_return = first_run.run_return
        /\ df = first_run.df

\* C10's case: a second run returned a table of several teams, computed
\* with park factors and pitching entries the first run had already stored.
C10_Witness ==
    /\ pc = "returned"
    /\ runs_done = 2
    /\ run_return = "df"
    /\ Len(df) >= 2
    /\ df = first_run.df
    /\ \E v \in DOMAIN park_factors : park_factors[v] # <<1, 1>>
    /\ \E t \in DOMAIN pitcher_stats : pitcher_stats[t].ra9_minus # <<100, 1>>

-----------------------------------------------------------------------------
(* SpecSmooth: smooth_adjustment_factor applied to bounded inputs.         *)

SmoothingInputs == {Rat(k, SmoothSteps) : k \in 0..SmoothSteps}

RA9Inputs == {FromInt(10 * k) : k \in 0..MaxRA9Tens}

InitSmooth ==
    /\ api = NoApi
    /\ tie_order = <<>>
    /\ smoothing_factor \in SmoothingInputs
    /\ InitInstance
    /\ InitLocals
    /\ pc = "idle"
    /\ call = NoCall
    /\ out = None

CallSmooth ==
    \E r \in RA9Inputs :
        /\ call = NoCall
        /\ call' = [fn |-> "smooth_adjustment_factor", ra9_minus |-> r]
        /\ out' = smooth_adjustment_factor(r)
        /\ UNCHANGED <<api, smoothing_factor, teams_data, pitcher_stats,
                       park_factors, venue_stats, league_avg_runs, league_ra9,
                       results, df, pc, adjusted_lists, tie_order,
                       run_return, runs_done, first_run>>

NextSmooth == CallSmooth

SpecSmooth == InitSmooth /\ [][NextSmooth]_vars

Smoothed == call.fn = "smooth_adjustment_factor"

\* out lies in [1/2, 3/2], stated on the integers of the fraction
InClampRange(f) == f[2] <= 2 * f[1] /\ 2 * f[1] <= 3 * f[2]

\* C1 as stated: for every RA9- value and every smoothing factor in [0,1],
\* s = 0 included, the factor returned lies in [0.5, 1.5].
C1_AlwaysClamped == Smoothed => InClampRange(out)

\* C1 as amended: for every smoothing factor in (0,1] the returned factor
\* lies in [0.5, 1.5]; for s = 0 the function returns ra9_minus / 100 as it
\* is, with no clamp (s = 0, RA9- = 10 gives 0.1).
C1_ClampedWhenSmoothing ==
    Smoothed =>
        /\ ~IsZero(smoothing_factor) => InClampRange(out)
        /\ IsZero(smoothing_factor) =>
               100 * out[1] * call.ra9_minus[2] = call.ra9_minus[1] * out[2]

\* C1's cases: a smoothed factor that the clamp cut (s = 1/10, RA9- = 10),
\* or the unsmoothed factor 0.1 of RA9- = 10.
C1_Witness ==
    /\ Smoothed
    /\ call.ra9_minus = FromInt(10)
    /\ \/ smoothing_factor = Rat(1, 10) /\ out = Rat(1, 2)
       \/ IsZero(smoothing_factor) /\ out = Rat(1, 10)

\* clamp(x, 0.5, 1.5) of the fraction n/d (d > 0), on integers
ClampedFraction(n, d) ==
    IF 2 * n < d THEN <<1, 2>>
    ELSE IF 2 * n > 3 * d THEN <<3, 2>>
    ELSE <<n, d>>

SameFraction(a, b) == a[1] * b[2] = b[1] * a[2]

\* C8: for every smoothing factor s in (0,1] and every RA9- value r, the
\* function returns clamp((100 + (r - 100) * (1 - s)) / 100, 0.5, 1.5); with
\* s = 0.3 that is 0.79 for r = 70, 1.21 for r = 130 and 1.0 for r = 100.
C8_SmoothingFormula ==
    (Smoothed /\ ~IsZero(smoothing_factor)) =>
        LET r == call.ra9_minus
            s == smoothing_factor
            \* (100 + (r - 100)(1 - s)) / 100 over the denominator 100*rd*sd
            n == 100 * r[2] * s[2] + (r[1] - 100 * r[2]) * (s[2] - s[1])
            d == 100 * r[2] * s[2]
        IN  /\ SameFraction(out, ClampedFraction(n, d))
            /\ s = <<3, 10>> /\ r = <<70, 1>> => out = <<79, 100>>
            /\ s = <<3, 10>> /\ r = <<130, 1>> => out = <<121, 100>>
            /\ s = <<3, 10>> /\ r = <<100, 1>> => out = <<1, 1>>

\* C8's case: s = 0.3 applied to RA9- = 70 gave 0.79.
C8_Witness ==
    /\ Smoothed
    /\ smoothing_factor = <<3, 10>>
    /\ call.ra9_minus = <<70, 1>>
    /\ out = <<79, 100>>

-----------------------------------------------------------------------------
(* SpecPQI: get_pitcher_ra9_minus applied to bounded inputs.               *)

RunsInputs == 0..MaxRunsAllowed \cup {45}

InningsInputs == {Rat(k, 3) : k \in 0..MaxInningThirds} \cup {FromInt(90)}

LeagueInputs == {Rat(k, 2) : k \in 0..MaxLeagueHalves}

\* the dicts the function is handed: absent/empty, the totals alone, and the
\* totals with the league average that calculate_team_pitching_quality adds
PitchingDicts ==
    {EmptyMap}
    \cup {[runs_allowed |-> r, innings_pitched |-> ip] :
              r \in RunsInputs, ip \in InningsInputs}
    \cup {[runs_allowed |-> r, innings_pitched |-> ip, league_avg_ra9 |-> lg] :
              r \in RunsInputs, ip \in InningsInputs, lg \in LeagueInputs}

InitPQI ==
    /\ api = NoApi
    /\ tie_order = <<>>
    /\ smoothing_factor = Rat(3, 10)
    /\ InitInstance
    /\ InitLocals
    /\ pc = "idle"
    /\ call = NoCall
    /\ out = None

CallPQI ==
    \E d \in PitchingDicts :
        /\ call = NoCall
        /\ call' = [fn |-> "get_pitcher_ra9_minus", pitcher_stats_dict |-> d]
        /\ out' = get_pitcher_ra9_minus(d)
        /\ UNCHANGED <<api, smoothing_factor, teams_data, pitcher_stats,
                       park_factors, venue_stats, league_avg_runs, league_ra9,
                       results, df, pc, adjusted_lists, tie_order,
                       run_return, runs_done, first_run>>

NextPQI == CallPQI

SpecPQI == InitPQI /\ [][NextPQI]_vars

Indexed == call.fn = "get_pitcher_ra9_minus"

\* C5: the index is 100 whenever innings_pitched is 0 or the totals are
\* absent, regardless of runs_allowed; otherwise it equals
\* ((runs_allowed / innings_pitched) * 9 / league_avg_ra9) * 100 with no lower
\* or upper clamp (45 runs, 90 innings, league 4.5 gives 100).
C5_PitchingQualityIndex ==
    Indexed =>
        LET d == call.pitcher_stats_dict
            absent == DOMAIN d = {}
            ip == IF absent THEN <<0, 1>> ELSE d.innings_pitched
            ra == IF absent THEN 0 ELSE d.runs_allowed
            lg == Get(d, "league_avg_ra9", <<9, 2>>)
        IN  /\ (absent \/ ip[1] = 0) => out = <<100, 1>>
            /\ (~absent /\ ip[1] # 0 /\ lg[1] # 0) =>
                   \* out = (ra * 9 * 100 * ipd * lgd) / (ipn * lgn)
                   out[1] * ip[1] * lg[1] = out[2] * 900 * ra * ip[2] * lg[2]
            /\ (~absent /\ ra = 45 /\ ip = <<90, 1>> /\ lg = <<9, 2>>) =>
                   out = <<100, 1>>

\* C5's cases: an index above the smoothing clamp's range that was returned
\* as it is (6 runs in 1/3 inning against a league average of 4.5 is 3600),
\* and the neutral 100 for no innings with runs on the board.
C5_Witness ==
    /\ Indexed
    /\ DOMAIN call.pitcher_stats_dict # {}
    /\ \/ /\ call.pitcher_stats_dict.runs_allowed = 6
          /\ call.pitcher_stats_dict.innings_pitched = <<1, 3>>
          /\ Get(call.pitcher_stats_dict, "league_avg_ra9", None) = <<9, 2>>
          /\ out = <<3600, 1>>
       \/ /\ call.pitcher_stats_dict.runs_allowed = 45
          /\ call.pitcher_stats_dict.innings_pitched = <<0, 1>>
          /\ out = <<100, 1>>

-----------------------------------------------------------------------------
(* SpecRank: generate_rankings applied to bounded lists of team results.   *)

\* the averages tried by the ranking checks: -1..MaxAvg in a split, and
\* 0..MaxAvg overall
MaxAvg == 1

OverallAverages == {FromInt(k) : k \in 0..MaxAvg}

\* None: the team has no game in the split
SplitAverages == {None} \cup {FromInt(k) : k \in (-1)..MaxAvg}

SplitMetrics == {"vs_lhp", "vs_rhp", "home", "away"}

\* the games of the team in a split: in the varied split one game or none,
\* in the other splits one game against each hand and two at each place
SplitGames(metric, varied, split) ==
    IF metric = varied THEN (IF split = None THEN 0 ELSE 1)
    ELSE IF metric \in {"home", "away"} THEN 2 ELSE 1

\* sum(xs) / len(xs) if xs else 0: 0 for the empty split
SplitAverage(metric, varied, split, overall) ==
    IF metric = varied THEN (IF split = None THEN FromInt(0) ELSE split)
    ELSE overall

\* a summary as calculate_adjusted_offensive_quality appends it: at least one
\* game, home and away games adding up to the games played, an average of 0
\* for a split without games
ResultRow(team_id, overall, varied, split) ==
    [team_id |-> team_id,
     team_name |-> team_id,
     games_played |-> SplitGames("home", varied, split)
                      + SplitGames("away", varied, split),
     avg_game_score |-> overall,
     avg_adjusted_score |-> overall,
     avg_adj_vs_lhp |-> SplitAverage("vs_lhp", varied, split, overall),
     avg_adj_vs_rhp |-> SplitAverage("vs_rhp", varied, split, overall),
     games_vs_lhp |-> SplitGames("vs_lhp", varied, split),
     games_vs_rhp |-> SplitGames("vs_rhp", varied, split),
     avg_adj_home |-> SplitAverage("home", varied, split, overall),
     avg_adj_away |-> SplitAverage("away", varied, split, overall),
     games_home |-> SplitGames("home", varied, split),
     games_away |-> SplitGames("away", varied, split),
     total_runs |-> 4,
     avg_runs |-> Rat(4, SplitGames("home", varied, split)
                         + SplitGames("away", varied, split)),
     total_hits |-> 8,
     total_walks |-> 3,
     total_strikeouts |-> 7]

TieOrders == {order \in [1..3 -> TeamIds] : \A t \in TeamIds : \E i \in 1..3 : order[i] = t}

InitRank ==
    /\ api = NoApi
    /\ smoothing_factor = Rat(3, 10)
    /\ InitInstance
    /\ venue_stats = EmptyMap
    /\ league_avg_runs = None
    /\ league_ra9 = None
    /\ adjusted_lists = EmptyMap
    /\ run_return = "pending"
    /\ runs_done = 0
    /\ first_run = None
    /\ df = <<>>
    /\ \E varied \in SplitMetrics, overall \in [TeamIds -> OverallAverages],
          split \in [TeamIds -> SplitAverages] :
           results = [t \in 1..3 |-> ResultRow(t, overall[t], varied, split[t])]
    /\ tie_order \in TieOrders
    /\ pc = "idle"
    /\ call = NoCall
    /\ out = None

CallGenerateRankings ==
    /\ call = NoCall
    /\ call' = [fn |-> "generate_rankings", results |-> results]
    /\ df' = generate_rankings(results)
    /\ UNCHANGED <<api, smoothing_factor, teams_data, pitcher_stats,
                   park_factors, venue_stats, league_avg_runs, league_ra9,
                   results, pc, adjusted_lists, tie_order, run_return,
                   runs_done, first_run, out>>

NextRank == CallGenerateRankings

SpecRank == InitRank /\ [][NextRank]_vars

Ranked == call.fn = "generate_rankings"

\* the five metrics: the rank column, its count and its average
Metrics ==
    { [rank |-> "rank", count |-> "games_played",
       avg |-> "avg_adjusted_score"],
      [rank |-> "rank_vs_lhp", count |-> "games_vs_lhp",
       avg |-> "avg_adj_vs_lhp"],
      [rank |-> "rank_vs_rhp", count |-> "games_vs_rhp",
       avg |-> "avg_adj_vs_rhp"],
      [rank |-> "rank_home", count |-> "games_home", avg |-> "avg_adj_home"],
      [rank |-> "rank_away", count |-> "games_away", avg |-> "avg_adj_away"] }

\* the rows of the table with games in the metric
Counted(m) == {i \in 1..Len(df) : df[i][m.count] > 0}

RankedAsSpecified(m) ==
    /\ {df[i][m.rank] : i \in Counted(m)} = 1..Cardinality(Counted(m))
    /\ \A i, j \in Counted(m) :
           /\ i # j => df[i][m.rank] # df[j][m.rank]
           /\ df[i][m.rank] < df[j][m.rank] =>
                  ~Less(df[i][m.avg], df[j][m.avg])
    /\ \A i \in (1..Len(df)) \ Counted(m) : df[i][m.rank] = 0

-----------------------------------------------------------------------------
(* Further properties of run() under Spec.                                 *)

\* calculate_park_factors has finished its scan in this run
SchedulesScanned == league_avg_runs # None

\* the team's schedule was fetched and scanned
Scanned(team_id) ==
    /\ \E i \in 1..Len(teams_data) : teams_data[i] = team_id
    /\ team_id \notin api.schedule_errors

\* the completed games of the season with a venue id and a linescore
Countable ==
    {i \in 1..Len(api.games) :
        /\ api.games[i].status = "F"
        /\ api.games[i].venue # 0
        /\ api.games[i].linescore # <<>>}

\* those among them that a scanned schedule of the home team shows
CountableAtHome == {i \in Countable : Scanned(api.games[i].home)}

RECURSIVE RunsOfGames(_)
RunsOfGames(is) ==
    IF is = {} THEN 0
    ELSE LET i == CHOOSE j \in is : TRUE
         IN  api.games[i].linescore.home + api.games[i].linescore.away
             + RunsOfGames(is \ {i})

\* the scanned schedules of both the home and the away team show each of them
InBothSchedules ==
    \A i \in Countable :
        Scanned(api.games[i].home) /\ Scanned(api.games[i].away)

GamesAt(v) == {i \in CountableAtHome : api.games[i].venue = v}

\* C13: after the scan of all teams' schedules, every completed game with a
\* venue id and a linescore is in the totals of exactly one venue, its own,
\* exactly once, though the schedules of its home and of its away team both
\* show it: each venue's count and runs are those of its distinct games and
\* the counts of all venues add up to the number of distinct such games.
C13_CountedOnce ==
    SchedulesScanned =>
        /\ DOMAIN venue_stats = {api.games[i].venue : i \in CountableAtHome}
        /\ \A v \in DOMAIN venue_stats :
               /\ venue_stats[v].games = Cardinality(GamesAt(v))
               /\ venue_stats[v].runs = RunsOfGames(GamesAt(v))
        /\ VenueSum(DOMAIN venue_stats, "games") = Cardinality(CountableAtHome)
        /\ InBothSchedules =>
               VenueSum(DOMAIN venue_stats, "games") = Cardinality(Countable)

\* C13's case: more than ten such games at two venues, each of them shown by
\* the scanned schedules of both of its teams
C13_Witness ==
    /\ SchedulesScanned
    /\ InBothSchedules
    /\ Cardinality(DOMAIN venue_stats) = 2
    /\ Cardinality(Countable) > min_games_threshold
    /\ VenueSum(DOMAIN venue_stats, "games") = Cardinality(Countable)

\* the records of the team whose opposing starter threw neither L nor R
OtherHand(games) ==
    {i \in 1..Len(games) : games[i].pitcher_hand \notin {"L", "R"}}

CountsAsSpecified(row, games, lists) ==
    /\ row.games_played = Len(games)
    /\ row.games_home + row.games_away = row.games_played
    /\ row.games_home = Cardinality({i \in 1..Len(games) : games[i].is_home})
    /\ row.games_vs_lhp + row.games_vs_rhp
           = row.games_played - Cardinality(OtherHand(games))
    /\ Len(lists.adjusted_scores) = row.games_played
    /\ Mul(row.avg_adjusted_score, FromInt(row.games_played))
           = SumSeq(lists.adjusted_scores)

\* C14: in every team summary games_home + games_away = games_played, and
\* games_vs_lhp + games_vs_rhp = games_played minus the number of games whose
\* opposing starter's hand is neither L nor R; those games still count in
\* games_played and in the overall average.
C14_SplitCounts ==
    \A k \in 1..Len(results) :
        CountsAsSpecified(results[k], process_team_games(results[k].team_id),
                          adjusted_lists[results[k].team_id])

\* C14's case: a summary with home and away games and with games against a
\* starter of unknown hand, left out of both handedness splits
C14_Witness ==
    \E k \in 1..Len(results) :
        /\ results[k].games_home > 0
        /\ results[k].games_away > 0
        /\ results[k].games_vs_lhp > 0
        /\ results[k].games_vs_lhp + results[k].games_vs_rhp
               < results[k].games_played

\* the teams whose season pitching-stats fetch failed
FailedTeams ==
    {teams_data[i] : i \in {j \in 1..Len(teams_data) :
                                api.pitching[teams_data[j]].kind = "error"}}

\* the teams whose fetch answered a stat line
AnsweredTeams ==
    {teams_data[i] : i \in {j \in 1..Len(teams_data) :
                                api.pitching[teams_data[j]].kind = "stat"}}

\* calculate_team_pitching_quality returned and stored its dict in this run
PitchingStored == league_ra9 # None /\ ~calculate_team_pitching_quality.raised

FailedEntry(entry) ==
    /\ entry.runs_allowed = 0
    /\ entry.innings_pitched = <<0, 1>>
    /\ entry.league_avg_ra9 = league_ra9
    /\ entry.ra9_minus = <<100, 1>>

AnsweredEntry(entry, answer) ==
    /\ entry.runs_allowed = answer.runs
    /\ entry.innings_pitched = parse_innings(answer.inningsPitched)
    /\ entry.league_avg_ra9 = league_ra9

Adjusting ==
    pc \in {"calculate_adjusted_offensive_quality", "generate_rankings"}

\* the first per-game adjusted score of this run has been computed
Adjusted == adjusted_lists # EmptyMap \/ results # <<>>

\* both baselines of this run are computed and stored in the instance
BaselinesStored ==
    /\ league_avg_runs # None
    /\ league_ra9 # None
    /\ park_factors = calculate_park_factors.park_factors
    /\ pitcher_stats = calculate_team_pitching_quality.pitcher_stats

\* C16: in every run the park factors and the pitching quality indexes, with
\* the league baselines, are computed and stored before the first per-game
\* adjusted score is computed, and from then on, through the adjustment, the
\* aggregation and the ranking, pitcher_stats and park_factors do not change.
C16_BaselinesBeforeAdjustment ==
    /\ []((Adjusting \/ Adjusted) => BaselinesStored)
    /\ [][Adjusting => UNCHANGED <<pitcher_stats, park_factors>>]_vars

\* C16's case: a run that has adjusted games with stored park factors and
\* pitching qualities and is about to rank the teams
C16_Witness ==
    /\ pc = "generate_rankings"
    /\ Adjusted
    /\ DOMAIN park_factors # {}
    /\ DOMAIN pitcher_stats # {}

\* C17 as stated: both league baselines are strictly positive once computed,
\* whatever the non-negative pitching and venue totals, seasons without a
\* recorded run included; each is 4.5 when no innings, respectively no games,
\* are recorded.
C17_BaselinesPositive ==
    /\ league_ra9 # None =>
           /\ league_ra9[1] > 0
           /\ AnsweredInnings(Len(teams_data))[1] = 0 => league_ra9 = <<9, 2>>
    /\ league_avg_runs # None =>
           /\ league_avg_runs[1] > 0
           /\ VenueSum(DOMAIN venue_stats, "games") = 0 =>
                  league_avg_runs = <<9, 2>>

\* what holds of the code: the baselines are never negative and 4.5 without
\* innings or games, and 0 exactly when innings or games are recorded but
\* not one run
BaselinesNonNegative ==
    /\ league_ra9 # None =>
           /\ league_ra9[1] >= 0
           /\ AnsweredInnings(Len(teams_data))[1] = 0 => league_ra9 = <<9, 2>>
           /\ league_ra9[1] = 0 <=>
                  /\ AnsweredInnings(Len(teams_data))[1] > 0
                  /\ AnsweredRuns(Len(teams_data)) = 0
    /\ league_avg_runs # None =>
           /\ league_avg_runs[1] >= 0
           /\ VenueSum(DOMAIN venue_stats, "games") = 0 =>
                  league_avg_runs = <<9, 2>>
           /\ league_avg_runs[1] = 0 <=>
                  /\ VenueSum(DOMAIN venue_stats, "games") > 0
                  /\ VenueSum(DOMAIN venue_stats, "runs") = 0

ZeroLeagueRA9 == league_ra9 = <<0, 1>>

ZeroLeagueRuns == league_avg_runs = <<0, 1>>

-----------------------------------------------------------------------------
(* SpecScore: calculate_game_score applied to bounded batting lines.       *)

\* each of runs, hits, walks, strikeouts is tried from 0 to MaxStat
MaxStat == 3

StatInputs == 0..MaxStat

BattingInputs ==
    (StatInputs \X StatInputs \X StatInputs \X StatInputs)
    \cup {<<5, 8, 3, 7>>, <<0, 1, 0, 9>>}

InitScore ==
    /\ api = NoApi
    /\ tie_order = <<>>
    /\ smoothing_factor \in PipelineSmoothing
    /\ InitInstance
    /\ InitLocals
    /\ pc = "idle"
    /\ call = NoCall
    /\ out = None

CallScore ==
    \E line \in BattingInputs :
        /\ call = NoCall
        /\ call' = [fn |-> "calculate_game_score", runs |-> line[1],
                    hits |-> line[2], walks |-> line[3],
                    strikeouts |-> line[4]]
        /\ out' = calculate_game_score(line[1], line[2], line[3], line[4])
        /\ UNCHANGED <<api, smoothing_factor, teams_data, pitcher_stats,
                       park_factors, venue_stats, league_avg_runs, league_ra9,
                       results, df, pc, adjusted_lists, tie_order,
                       run_return, runs_done, first_run>>

NextScore == CallScore

SpecScore == InitScore /\ [][NextScore]_vars

Scored == call.fn = "calculate_game_score"

\* 20 * (1.0*runs + 0.5*hits + 0.7*walks - 0.25*strikeouts)
TwentyScores ==
    20 * call.runs + 10 * call.hits + 14 * call.walks - 5 * call.strikeouts

ScoreAsSpecified ==
    Scored =>
        /\ out[2] > 0
        /\ out[1] * 20 = out[2] * TwentyScores
        /\ TwentyScores < 0 => out[1] < 0
        /\ (call.runs = 5 /\ call.hits = 8 /\ call.walks = 3
            /\ call.strikeouts = 7) => out = <<187, 20>>

\* C11: for non-negative integers runs, hits, walks, strikeouts,
\* calculate_game_score returns 1.0*runs + 0.5*hits + 0.7*walks -
\* 0.25*strikeouts (5, 8, 3, 7 gives 9.35), a negative number when the
\* strikeouts dominate, and the call changes no field of the instance.
C11_GameScore ==
    /\ []ScoreAsSpecified
    /\ [][UNCHANGED <<smoothing_factor, teams_data, pitcher_stats,
                      park_factors>>]_vars

\* C11's cases: the example line scored 9.35, and a line of one hit and nine
\* strikeouts scored -1.75
C11_Witness ==
    /\ Scored
    /\ \/ call.runs = 5 /\ call.hits = 8 /\ call.walks = 3
          /\ call.strikeouts = 7 /\ out = <<187, 20>>
       \/ call.runs = 0 /\ call.hits = 1 /\ call.walks = 0
          /\ call.strikeouts = 9 /\ out = <<-7, 4>>

-----------------------------------------------------------------------------
(* SpecInnings: parse_innings applied to bounded texts and numbers.        *)

\* the texts tried have at most MaxText characters
MaxText == 3

Chars == {"0", "1", "2", "6", ".", "-", "a"}

Texts == UNION {[1..n -> Chars] : n \in 0..MaxText}

InningsInputs12 ==
    {PyStr(t) : t \in Texts}
    \cup {PyStr(<<"a", "b", "c">>), PyStr(<<"1", "4", "5", ".", "1">>)}
    \cup {PyInt(n) : n \in {0, 6, 145}}
    \cup {PyFloat(w, d) : w \in {0, 6, 145}, d \in {0, 1, 2}}
    \cup {NoneValue}

InitInnings ==
    /\ api = NoApi
    /\ tie_order = <<>>
    /\ smoothing_factor = Rat(3, 10)
    /\ InitInstance
    /\ InitLocals
    /\ pc = "idle"
    /\ call = NoCall
    /\ out = None

CallParseInnings ==
    \E v \in InningsInputs12 :
        /\ call = NoCall
        /\ call' = [fn |-> "parse_innings", innings_str |-> v]
        /\ out' = parse_innings(v)
        /\ UNCHANGED <<api, smoothing_factor, teams_data, pitcher_stats,
                       park_factors, venue_stats, league_avg_runs, league_ra9,
                       results, df, pc, adjusted_lists, tie_order,
                       run_return, runs_done, first_run>>

NextInnings == CallParseInnings

SpecInnings == InitInnings /\ [][NextInnings]_vars

Parsed == call.fn = "parse_innings"

\* the number a run of digits writes, read from the left
RECURSIVE Written(_, _, _)
Written(text, i, n) ==
    IF i > Len(text) THEN n
    ELSE Written(text, i + 1, 10 * n + DigitValue(text[i]))

AllDigits(text) == text # <<>> /\ \A i \in 1..Len(text) : IsDigit(text[i])

\* text is whole.d: digits, a dot, one digit
IsWholeDotDigit(text) ==
    /\ Len(text) >= 3
    /\ text[Len(text) - 1] = "."
    /\ IsDigit(text[Len(text)])
    /\ AllDigits(SubSeq(text, 1, Len(text) - 2))

\* no reading as a number: a letter, two dots, or nothing at all
Unparseable(text) ==
    \/ text = <<>>
    \/ \E i \in 1..Len(text) : text[i] \in {"a", "b", "c"}
    \/ \E i, j \in 1..Len(text) : i # j /\ text[i] = "." /\ text[j] = "."

TextAsSpecified(text) ==
    /\ IsWholeDotDigit(text) =>
           out[1] * 3 =
               out[2] * (3 * Written(SubSeq(text, 1, Len(text) - 2), 1, 0)
                         + DigitValue(text[Len(text)]))
    /\ AllDigits(text) => out = <<Written(text, 1, 0), 1>>
    /\ Unparseable(text) => out = <<0, 1>>
    /\ text = <<"6", ".", "0">> => out = <<6, 1>>
    /\ text = <<"6", ".", "1">> => out = <<19, 3>>
    /\ text = <<"6", ".", "2">> => out = <<20, 3>>
    /\ text = <<"6">> => out = <<6, 1>>
    /\ text = <<"a", "b", "c">> => out = <<0, 1>>

NumberAsSpecified(x) ==
    /\ x.type = "int" => out = <<x.value, 1>>
    /\ x.type = "float" =>
           out[1] * 3 = out[2] * (3 * x.value[1] + x.value[2])

\* C12: parse_innings always returns a number: whole + d/3 for a text or a
\* number of the form whole.d ("6.1" gives 6 1/3, "6.2" gives 6 2/3), the
\* whole number for an input without fraction ("6" gives 6.0), and 0.0 for
\* every unparseable input ("abc").
C12_ParseInnings ==
    Parsed =>
        /\ Len(out) = 2 /\ out[2] > 0
        /\ call.innings_str.type = "str" =>
               TextAsSpecified(call.innings_str.value)
        /\ call.innings_str.type \in {"int", "float"} =>
               NumberAsSpecified(call.innings_str)
        /\ call.innings_str.type = "NoneType" => out = <<0, 1>>

\* C12's cases: "145.1" parsed to 145 1/3, the float 6.2 parsed to 6 2/3, and
\* "abc" answered with 0.0
C12_Witness ==
    /\ Parsed
    /\ \/ call.innings_str = PyStr(<<"1", "4", "5", ".", "1">>)
          /\ out = <<436, 3>>
       \/ call.innings_str = PyFloat(6, 2) /\ out = <<20, 3>>
       \/ call.innings_str = PyStr(<<"a", "b", "c">>) /\ out = <<0, 1>>

=============================================================================
